---- MODULE Spec2Model ----
(***************************************************************************)
(* Model of SQLiteConnectionSingleton (src/sqlite_conn.py, lines 144-225). *)
(*                                                                         *)
(* Python objects are numbered in creation order: the n-th handle object   *)
(* ever created is handle n, the n-th sqlite3 connection ever opened is    *)
(* connection n.  An object keeps its number for ever, so two numbers are  *)
(* equal exactly when the two references are the same object.              *)
(*                                                                         *)
(* The class declares _instance and _conn as CLASS attributes.  connect()  *)
(* and close() assign self._conn, which in Python creates an INSTANCE      *)
(* attribute on the handle; reset() assigns cls._conn, the class           *)
(* attribute.  A read of self._conn finds the instance attribute if the    *)
(* handle has one and the class attribute otherwise.  The model keeps the  *)
(* two apart.                                                              *)
(*                                                                         *)
(* A sqlite3 connection is live from sqlite3.connect() until close() or    *)
(* until the connection object is finalized.  CPython finalizes an object  *)
(* as soon as the last reference to it goes away, so the model closes a    *)
(* connection in the very step that makes it unreachable.  The references  *)
(* are: the class attribute _instance, the handles a caller keeps in its   *)
(* own variables (held), and a handle's _conn attribute.  Result cursors   *)
(* are read by the caller before its next call and not kept.               *)
(***************************************************************************)
EXTENDS Integers, Sequences, FiniteSets

\* Most handle objects ever created (first construction plus one per reset).
MaxHandles == 2
\* Most connections ever opened by sqlite3.connect.
MaxConns == 2

\* The database paths callers pass to the constructor.
Paths == {"a.db", "b.db"}
\* The rows callers insert and delete (one table per database file).
Rows == {"r1"}

\* Python's None, for references to numbered objects.
None == 0
\* The db_path of an object whose __init__ has not yet assigned it.
NoPath == ""
\* The row field of a statement that names no row.
NoRow == ""

\* The statements callers execute: INSERT and DELETE of one row (the row is
\* the bound parameter), SELECT of the whole table, and a statement that
\* sqlite3 rejects (bad syntax, unknown table).
Queries ==
    [kind : {"INSERT", "DELETE"}, row : Rows]
        \cup {[kind |-> "SELECT", row |-> NoRow], [kind |-> "BAD", row |-> NoRow]}

VARIABLES
    cls_instance,   \* class attribute _instance: a handle number or None
    cls_conn,       \* class attribute _conn: a connection number or None
    handles,        \* sequence of handle objects, by number
    conns,          \* sequence of sqlite3 connections, by number
    store,          \* the committed rows of each database file
    held,           \* handles a caller keeps a reference to
    returned,       \* handles returned by the constructor since the last reset
    retired,        \* handles returned by the constructor before the last reset
    lastOp,         \* the last call made and what it returned or raised
    objs            \* sequence of objects of the other three classes, by number

vars == <<cls_instance, cls_conn, handles, conns, store, held, returned, retired, lastOp,
          objs>>

----------------------------------------------------------------------------
\* Objects

\* An object as object.__new__ leaves it: no instance attribute is set.
\* has_conn tells whether the instance attribute _conn exists; conn is its
\* value when it does.
FreshObject ==
    [db_path |-> NoPath, initialized |-> FALSE, has_conn |-> FALSE, conn |-> None]

\* A connection as sqlite3.connect(path) returns it.  dirty and view are the
\* open transaction: view is the connection's working copy of the table
\* while dirty, and commit writes it to the store.
OpenedConn(path) ==
    [path |-> path, open |-> TRUE, dirty |-> FALSE, view |-> {}]

\* sqlite3 Connection.close(), also run when the object is finalized: the
\* open transaction is rolled back and the connection is no longer live.
\* Nothing of a closed connection can be used again, so all closed
\* connections are the same record.
ClosedConn(c) ==
    [path |-> NoPath, open |-> FALSE, dirty |-> FALSE, view |-> {}]

\* The value a read of self._conn yields on handle object obj.
ConnAttr(obj, clsc) ==
    IF obj.has_conn THEN obj.conn ELSE clsc

\* self._conn of handle h in the current state.
ConnOf(h) == ConnAttr(handles[h], cls_conn)

\* The live connections of the process: opened and not yet closed.
LiveConns == {c \in DOMAIN conns : conns[c].open}

\* Handle h has a live connection.
HasLive(h) == ConnOf(h) # None /\ conns[ConnOf(h)].open

----------------------------------------------------------------------------
\* Reference counting

\* The handles still referenced after a step: by the class attribute or by
\* a caller.
Reachable(inst, hld) ==
    hld \cup (IF inst = None THEN {} ELSE {inst})

\* The connections still referenced: by the class attribute _conn or by the
\* instance attribute _conn of a reachable handle.
Referenced(hs, inst, clsc, hld) ==
    {hs[h].conn : h \in {x \in Reachable(inst, hld) : hs[x].has_conn}} \cup {clsc}

\* The connections after the unreferenced ones have been finalized.
Collect(hs, cs, inst, clsc, hld) ==
    [c \in DOMAIN cs |->
        IF cs[c].open /\ c \notin Referenced(hs, inst, clsc, hld)
        THEN ClosedConn(cs[c])
        ELSE cs[c]]

\* The handle objects after the unreferenced ones have been finalized: a
\* finalized object has no attributes left.
Finalize(hs, inst, hld) ==
    [h \in DOMAIN hs |-> IF h \in Reachable(inst, hld) THEN hs[h] ELSE FreshObject]

----------------------------------------------------------------------------
\* The record of a call: op is the method, h the handle it was called on
\* (None for the constructor and reset), path and q its argument, pre whether
\* h had a live connection when it was called, outcome "ok" or the exception
\* raised, ret the handle returned, rows the rows the cursor yields.
NoQuery == [kind |-> "", row |-> NoRow]

Call(op, h, path, q, pre, outcome, ret, rows) ==
    [op |-> op, h |-> h, path |-> path, q |-> q, pre |-> pre,
     outcome |-> outcome, ret |-> ret, rows |-> rows]

Init ==
    /\ cls_instance = None
    /\ cls_conn = None
    /\ handles = <<>>
    /\ conns = <<>>
    /\ store = [p \in Paths |-> {}]
    /\ held = {}
    /\ returned = {}
    /\ retired = {}
    /\ lastOp = Call("none", None, NoPath, NoQuery, FALSE, "ok", None, {})
    /\ objs = <<>>

----------------------------------------------------------------------------
\* Construction: SQLiteConnectionSingleton(db_path)

\* Slip: __new__ without the "is None" test creates an object on every call.
New_AlwaysCreates(inst, hs) ==
    [inst |-> Len(hs) + 1, hs |-> Append(hs, FreshObject)]

\* __new__: create the object only if the class holds none.
New(inst, hs) ==
    IF inst = None
    THEN [inst |-> Len(hs) + 1, hs |-> Append(hs, FreshObject)]
    ELSE [inst |-> inst, hs |-> hs]

\* Slip: __init__ without the else branch ignores a different path silently.
InitObject_Silent(obj, db_path) ==
    IF ~obj.initialized
    THEN [raises |-> FALSE, obj |-> [obj EXCEPT !.db_path = db_path, !.initialized = TRUE]]
    ELSE [raises |-> FALSE, obj |-> obj]

\* Slip: __init__ without the _initialized guard rebinds the path on every call.
InitObject_Overwrite(obj, db_path) ==
    [raises |-> FALSE, obj |-> [obj EXCEPT !.db_path = db_path, !.initialized = TRUE]]

\* Slip: __init__ assigns db_path before the conflict test, so the failing
\* call has already rebound the handle when it raises.
InitObject_RebindsThenRaises(obj, db_path) ==
    IF ~obj.initialized
    THEN [raises |-> FALSE, obj |-> [obj EXCEPT !.db_path = db_path, !.initialized = TRUE]]
    ELSE [raises |-> obj.db_path # db_path, obj |-> [obj EXCEPT !.db_path = db_path]]

\* Slip: __init__ sets self._conn = None on every call, dropping the
\* connection of the existing singleton.
InitObject_ClearsConn(obj, db_path) ==
    IF ~obj.initialized
    THEN [raises |-> FALSE, obj |-> [obj EXCEPT !.db_path = db_path, !.initialized = TRUE]]
    ELSE IF obj.db_path # db_path
         THEN [raises |-> TRUE, obj |-> obj]
         ELSE [raises |-> FALSE, obj |-> [obj EXCEPT !.has_conn = TRUE, !.conn = None]]

\* __init__ on object obj: bind the path on first initialization, raise
\* ValueError if the object is bound to another path, else leave it alone.
InitObject(obj, db_path) ==
    IF ~obj.initialized
    THEN [raises |-> FALSE, obj |-> [obj EXCEPT !.db_path = db_path, !.initialized = TRUE]]
    ELSE IF obj.db_path # db_path
         THEN [raises |-> TRUE, obj |-> obj]
         ELSE [raises |-> FALSE, obj |-> obj]

\* The constructor call.  The caller stores the returned handle in a
\* variable of its own (Drop is the caller letting go of it).
GetInstance(db_path) ==
    LET n == New(cls_instance, handles)
        h == n.inst
        i == InitObject(n.hs[h], db_path)
    IN  /\ Len(n.hs) <= MaxHandles
        /\ cls_instance' = h
        /\ handles' = [n.hs EXCEPT ![h] = i.obj]
        /\ IF i.raises
           THEN /\ UNCHANGED <<held, returned>>
                /\ lastOp' = Call("getInstance", None, db_path, NoQuery, FALSE,
                                  "ValueError", None, {})
           ELSE /\ held' = held \cup {h}
                /\ returned' = returned \cup {h}
                /\ lastOp' = Call("getInstance", None, db_path, NoQuery, FALSE,
                                  "ok", h, {})
        /\ UNCHANGED <<cls_conn, conns, store, retired, objs>>

\* The caller lets go of its reference to handle h.
Drop(h) ==
    /\ h \in held
    /\ held' = held \ {h}
    /\ conns' = Collect(handles, conns, cls_instance, cls_conn, held')
    /\ handles' = Finalize(handles, cls_instance, held')
    /\ lastOp' = Call("drop", h, NoPath, NoQuery, HasLive(h), "ok", None, {})
    /\ UNCHANGED <<cls_instance, cls_conn, store, returned, retired, objs>>

----------------------------------------------------------------------------
\* connect()

\* Slip: connect() without the "is None" test opens a connection on every call.
ConnectObject_AlwaysOpens(obj, clsc, cs) ==
    [obj |-> [obj EXCEPT !.has_conn = TRUE, !.conn = Len(cs) + 1],
     cs  |-> Append(cs, OpenedConn(obj.db_path))]

\* Slip: connect() tests whether the handle ever had a connection
\* (hasattr) in place of "is None", so it never reconnects after close().
ConnectObject_OnlyFirst(obj, clsc, cs) ==
    IF ~obj.has_conn /\ clsc = None
    THEN [obj |-> [obj EXCEPT !.has_conn = TRUE, !.conn = Len(cs) + 1],
          cs  |-> Append(cs, OpenedConn(obj.db_path))]
    ELSE [obj |-> obj, cs |-> cs]

\* The handle and the connections after connect() on handle object obj.
ConnectObject(obj, clsc, cs) ==
    IF ConnAttr(obj, clsc) = None
    THEN [obj |-> [obj EXCEPT !.has_conn = TRUE, !.conn = Len(cs) + 1],
          cs  |-> Append(cs, OpenedConn(obj.db_path))]
    ELSE [obj |-> obj, cs |-> cs]

Connect(h) ==
    LET r == ConnectObject(handles[h], cls_conn, conns)
    IN  /\ h \in held
        /\ Len(r.cs) <= MaxConns
        /\ handles' = [handles EXCEPT ![h] = r.obj]
        /\ conns' = r.cs
        /\ lastOp' = Call("connect", h, NoPath, NoQuery, HasLive(h), "ok", None, {})
        /\ UNCHANGED <<cls_instance, cls_conn, store, held, returned, retired, objs>>

----------------------------------------------------------------------------
\* close()

\* Slip: close() without "self._conn = None" keeps the closed connection.
CloseObject_KeepsReference(obj, clsc, cs) ==
    LET c == ConnAttr(obj, clsc)
    IN  IF c # None
        THEN [obj |-> obj, cs |-> [cs EXCEPT ![c] = ClosedConn(cs[c])]]
        ELSE [obj |-> obj, cs |-> cs]

\* Slip: close() without "self._conn.close()" forgets the connection open.
CloseObject_LeaksConnection(obj, clsc, cs) ==
    LET c == ConnAttr(obj, clsc)
    IN  IF c # None
        THEN [obj |-> [obj EXCEPT !.has_conn = TRUE, !.conn = None], cs |-> cs]
        ELSE [obj |-> obj, cs |-> cs]

\* The handle and the connections after close() on handle object obj.
CloseObject(obj, clsc, cs) ==
    LET c == ConnAttr(obj, clsc)
    IN  IF c # None
        THEN [obj |-> [obj EXCEPT !.has_conn = TRUE, !.conn = None],
              cs  |-> [cs EXCEPT ![c] = ClosedConn(cs[c])]]
        ELSE [obj |-> obj, cs |-> cs]

Close(h) ==
    LET r == CloseObject(handles[h], cls_conn, conns)
    IN  /\ h \in held
        /\ handles' = [handles EXCEPT ![h] = r.obj]
        /\ conns' = r.cs
        /\ lastOp' = Call("close", h, NoPath, NoQuery, HasLive(h), "ok", None, {})
        /\ UNCHANGED <<cls_instance, cls_conn, store, held, returned, retired, objs>>

----------------------------------------------------------------------------
\* execute(query, params)

\* cursor.execute(query, params) on connection c of a database whose
\* committed rows are committed: the statement runs in the connection's
\* transaction (opened by the first INSERT or DELETE), and sqlite3 raises on
\* a closed connection and on a statement it rejects.
CursorExecute(c, committed, q) ==
    LET base == IF c.dirty THEN c.view ELSE committed
    IN  IF ~c.open \/ q.kind = "BAD"
        THEN [raises |-> TRUE, c |-> c, rows |-> {}]
        ELSE IF q.kind = "INSERT"
        THEN [raises |-> FALSE, rows |-> {},
              c |-> [c EXCEPT !.dirty = TRUE, !.view = base \cup {q.row}]]
        ELSE IF q.kind = "DELETE"
        THEN [raises |-> FALSE, rows |-> {},
              c |-> [c EXCEPT !.dirty = TRUE, !.view = base \ {q.row}]]
        ELSE [raises |-> FALSE, c |-> c, rows |-> base]

\* Slip: rollback() in place of commit() throws the transaction away.
Commit_RollsBack(c, committed) ==
    [c |-> [c EXCEPT !.dirty = FALSE, !.view = {}], committed |-> committed]

\* Slip: execute() without "self._conn.commit()" leaves the transaction open.
Commit_Forgotten(c, committed) ==
    [c |-> c, committed |-> committed]

\* self._conn.commit(): the open transaction, if any, becomes the committed
\* rows of the file.
Commit(c, committed) ==
    [c |-> [c EXCEPT !.dirty = FALSE, !.view = {}],
     committed |-> IF c.dirty THEN c.view ELSE committed]

\* Slip: execute() connects on demand, as SQLiteConnectionLazy.execute
\* does, in place of raising RuntimeError.
Execute_EnsuresConnection(h, q) ==
    LET r == ConnectObject(handles[h], cls_conn, conns)
        c == ConnAttr(r.obj, cls_conn)
        committed == IF r.cs[c].open THEN store[r.cs[c].path] ELSE {}
        x == CursorExecute(r.cs[c], committed, q)
        m == Commit(x.c, committed)
    IN  /\ h \in held
        /\ Len(r.cs) <= MaxConns
        /\ handles' = [handles EXCEPT ![h] = r.obj]
        /\ IF x.raises
           THEN /\ conns' = [r.cs EXCEPT ![c] = x.c]
                /\ lastOp' = Call("execute", h, NoPath, q, HasLive(h),
                                  "sqlite3.Error", None, {})
                /\ UNCHANGED store
           ELSE /\ conns' = [r.cs EXCEPT ![c] = m.c]
                /\ store' = [store EXCEPT ![r.cs[c].path] = m.committed]
                /\ lastOp' = Call("execute", h, NoPath, q, HasLive(h),
                                  "ok", None, x.rows)
        /\ UNCHANGED <<cls_instance, cls_conn, held, returned, retired, objs>>

Execute(h, q) ==
    LET c == ConnOf(h)
    IN  /\ h \in held
        /\ IF c = None
           THEN /\ lastOp' = Call("execute", h, NoPath, q, HasLive(h),
                                  "RuntimeError", None, {})
                /\ UNCHANGED <<conns, store>>
           ELSE LET p == conns[c].path
                    committed == IF conns[c].open THEN store[p] ELSE {}
                    x == CursorExecute(conns[c], committed, q)
                    m == Commit(x.c, committed)
                IN  IF x.raises
                    THEN /\ conns' = [conns EXCEPT ![c] = x.c]
                         /\ lastOp' = Call("execute", h, NoPath, q, HasLive(h),
                                           "sqlite3.Error", None, {})
                         /\ UNCHANGED store
                    ELSE /\ conns' = [conns EXCEPT ![c] = m.c]
                         /\ store' = [store EXCEPT ![p] = m.committed]
                         /\ lastOp' = Call("execute", h, NoPath, q, HasLive(h),
                                           "ok", None, x.rows)
        /\ UNCHANGED <<cls_instance, cls_conn, handles, held, returned, retired, objs>>

----------------------------------------------------------------------------
\* reset()

\* Slip: reset() without "cls._instance = None" keeps the singleton.
ResetClass_KeepsInstance(inst, clsc) ==
    [inst |-> inst, conn |-> None]

\* The class attributes after reset(): both are set to None.  The handle
\* object and its instance attributes are not touched.
ResetClass(inst, clsc) ==
    [inst |-> None, conn |-> None]

Reset ==
    LET r == ResetClass(cls_instance, cls_conn)
    IN  /\ cls_instance' = r.inst
        /\ cls_conn' = r.conn
        /\ conns' = Collect(handles, conns, r.inst, r.conn, held)
        /\ handles' = Finalize(handles, r.inst, held)
        /\ retired' = retired \cup returned
        /\ returned' = {}
        /\ lastOp' = Call("reset", None, NoPath, NoQuery, FALSE, "ok", None, {})
        /\ UNCHANGED <<store, held, objs>>

----------------------------------------------------------------------------
Next ==
    \/ \E p \in Paths : GetInstance(p)
    \/ \E h \in DOMAIN handles : Drop(h)
    \/ \E h \in DOMAIN handles : Connect(h)
    \/ \E h \in DOMAIN handles : Close(h)
    \/ \E h \in DOMAIN handles, q \in Queries : Execute(h, q)
    \/ Reset

Spec == Init /\ [][Next]_vars

----------------------------------------------------------------------------
\* The other connection classes: SQLiteConnectionContextManager ("ctx"),
\* SQLiteConnectionEager ("eager") and SQLiteConnectionLazy ("lazy").
\*
\* An object of these classes keeps its connection in self.conn, an instance
\* attribute set by __init__.  Objects are numbered in creation order and
\* the caller keeps every object it creates.  depth counts the with blocks
\* on a context manager that have been entered and not yet left: the with
\* statement calls __enter__ on the way in and __exit__ on the way out, and
\* nothing stops a caller from nesting two with blocks on one object.

\* Most objects of these classes ever created.
MaxObjects == 2
\* Most with blocks nested on one context manager.
MaxDepth == 2

\* The singleton takes no part while these classes are exercised.
SingletonIdle ==
    UNCHANGED <<cls_instance, cls_conn, handles, held, returned, retired>>

\* Object o has a live connection.
ObjLive(o) == objs[o].conn # None /\ conns[objs[o].conn].open

\* The exception information the with statement passes to __exit__.
ExcInfo(exc) ==
    [kind |-> IF exc THEN "exception" ELSE "no exception", row |-> NoRow]

\* self.conn = sqlite3.connect(self.db_path).  A connection the attribute
\* held before loses its only reference and is finalized.
OpenOn(obj, cs) ==
    LET rest == IF obj.conn # None
                THEN [cs EXCEPT ![obj.conn] = ClosedConn(cs[obj.conn])]
                ELSE cs
    IN  [obj |-> [obj EXCEPT !.conn = Len(cs) + 1],
         cs  |-> Append(rest, OpenedConn(obj.db_path))]

\* "if self.conn: self.conn.close(); self.conn = None", the body shared by
\* __exit__ and the two close methods.
CloseOn(obj, cs) ==
    IF obj.conn # None
    THEN [obj |-> [obj EXCEPT !.conn = None],
          cs  |-> [cs EXCEPT ![obj.conn] = ClosedConn(cs[obj.conn])]]
    ELSE [obj |-> obj, cs |-> cs]

\* __init__ of the three classes: only the eager class connects.
InitOf(kind, db_path, cs) ==
    LET obj == [kind |-> kind, db_path |-> db_path, conn |-> None, depth |-> 0]
    IN  IF kind = "eager" THEN OpenOn(obj, cs) ELSE [obj |-> obj, cs |-> cs]

Construct(kind, db_path) ==
    LET r == InitOf(kind, db_path, conns)
    IN  /\ Len(objs) < MaxObjects
        /\ Len(r.cs) <= MaxConns
        /\ objs' = Append(objs, r.obj)
        /\ conns' = r.cs
        /\ lastOp' = Call("new", Len(objs) + 1, db_path, NoQuery, FALSE, "ok",
                          Len(objs) + 1, {})
        /\ UNCHANGED store
        /\ SingletonIdle

\* SQLiteConnectionContextManager.__enter__
EnterObject(obj, cs) ==
    LET r == OpenOn(obj, cs)
    IN  [obj |-> [r.obj EXCEPT !.depth = obj.depth + 1], cs |-> r.cs]

Enter(o) ==
    LET r == EnterObject(objs[o], conns)
    IN  /\ objs[o].kind = "ctx"
        /\ objs[o].depth < MaxDepth
        /\ Len(r.cs) <= MaxConns
        /\ objs' = [objs EXCEPT ![o] = r.obj]
        /\ conns' = r.cs
        /\ lastOp' = Call("enter", o, NoPath, NoQuery, ObjLive(o), "ok", o, {})
        /\ UNCHANGED store
        /\ SingletonIdle

\* Slip: __exit__ closes only when the block ended without an exception.
ExitObject_KeepsOnException(obj, cs, exc) ==
    LET r == IF exc THEN [obj |-> obj, cs |-> cs] ELSE CloseOn(obj, cs)
    IN  [obj |-> [r.obj EXCEPT !.depth = obj.depth - 1], cs |-> r.cs]

\* SQLiteConnectionContextManager.__exit__: the exception information is
\* not looked at.
ExitObject(obj, cs, exc) ==
    LET r == CloseOn(obj, cs)
    IN  [obj |-> [r.obj EXCEPT !.depth = obj.depth - 1], cs |-> r.cs]

\* The with block on o ends, normally or (exc) with an exception.
Exit(o, exc) ==
    LET r == ExitObject(objs[o], conns, exc)
    IN  /\ objs[o].kind = "ctx"
        /\ objs[o].depth > 0
        /\ objs' = [objs EXCEPT ![o] = r.obj]
        /\ conns' = r.cs
        /\ lastOp' = Call("exit", o, NoPath, ExcInfo(exc), ObjLive(o), "ok", None, {})
        /\ UNCHANGED store
        /\ SingletonIdle

\* close() of SQLiteConnectionEager and SQLiteConnectionLazy.
ObjClose(o) ==
    LET r == CloseOn(objs[o], conns)
    IN  /\ objs[o].kind \in {"eager", "lazy"}
        /\ objs' = [objs EXCEPT ![o] = r.obj]
        /\ conns' = r.cs
        /\ lastOp' = Call("close", o, NoPath, NoQuery, ObjLive(o), "ok", None, {})
        /\ UNCHANGED store
        /\ SingletonIdle

\* Slip: _ensure_connection without the test connects on every execute.
EnsureConnection_AlwaysOpens(obj, cs) ==
    OpenOn(obj, cs)

\* SQLiteConnectionLazy._ensure_connection
EnsureConnection(obj, cs) ==
    IF obj.conn = None THEN OpenOn(obj, cs) ELSE [obj |-> obj, cs |-> cs]

\* Slip: every class connects on demand in execute, as the lazy class does.
BeforeExecute_AlwaysEnsures(obj, cs) ==
    EnsureConnection(obj, cs)

\* What execute does before it looks at self.conn: the lazy class ensures a
\* connection, the other two do nothing.
BeforeExecute(obj, cs) ==
    IF obj.kind = "lazy" THEN EnsureConnection(obj, cs) ELSE [obj |-> obj, cs |-> cs]

\* execute(query, params) of the three classes: RuntimeError without a
\* connection, else the statement and the commit.  The context manager's
\* execute returns nothing; the other two return the cursor.
ObjExecute(o, q) ==
    LET r == BeforeExecute(objs[o], conns)
        c == r.obj.conn
    IN  /\ Len(r.cs) <= MaxConns
        /\ objs' = [objs EXCEPT ![o] = r.obj]
        /\ IF c = None
           THEN /\ lastOp' = Call("execute", o, NoPath, q, ObjLive(o),
                                  "RuntimeError", None, {})
                /\ conns' = r.cs
                /\ UNCHANGED store
           ELSE LET committed == IF r.cs[c].open THEN store[r.cs[c].path] ELSE {}
                    x == CursorExecute(r.cs[c], committed, q)
                    m == Commit(x.c, committed)
                IN  IF x.raises
                    THEN /\ conns' = [r.cs EXCEPT ![c] = x.c]
                         /\ lastOp' = Call("execute", o, NoPath, q, ObjLive(o),
                                           "sqlite3.Error", None, {})
                         /\ UNCHANGED store
                    ELSE /\ conns' = [r.cs EXCEPT ![c] = m.c]
                         /\ store' = [store EXCEPT ![r.cs[c].path] = m.committed]
                         /\ lastOp' = Call("execute", o, NoPath, q, ObjLive(o), "ok", None,
                                           IF objs[o].kind = "ctx" THEN {} ELSE x.rows)
        /\ SingletonIdle

\* Each class is exercised on its own: the classes share nothing but the
\* database files.
NextCtx ==
    \/ \E p \in Paths : Construct("ctx", p)
    \/ \E o \in DOMAIN objs : Enter(o)
    \/ \E o \in DOMAIN objs, exc \in BOOLEAN : Exit(o, exc)
    \/ \E o \in DOMAIN objs, q \in Queries : ObjExecute(o, q)

SpecCtx == Init /\ [][NextCtx]_vars

NextEager ==
    \/ \E p \in Paths : Construct("eager", p)
    \/ \E o \in DOMAIN objs : ObjClose(o)
    \/ \E o \in DOMAIN objs, q \in Queries : ObjExecute(o, q)

SpecEager == Init /\ [][NextEager]_vars

NextLazy ==
    \/ \E p \in Paths : Construct("lazy", p)
    \/ \E o \in DOMAIN objs : ObjClose(o)
    \/ \E o \in DOMAIN objs, q \in Queries : ObjExecute(o, q)

SpecLazy == Init /\ [][NextLazy]_vars

----------------------------------------------------------------------------
\* Properties

\* C1: after any sequence of operations, handles kept from before a reset
\* included, at most one connection of the process is live.
C1_AtMostOneLiveConnection ==
    Cardinality(LiveConns) <= 1

\* C2: between two resets every successful constructor call returns the same
\* handle object, whatever connect, execute and close calls come in between.
C2_SameHandleBetweenResets ==
    /\ Cardinality(returned) <= 1
    /\ (lastOp.op = "getInstance" /\ lastOp.outcome = "ok") => returned = {lastOp.ret}

\* The constructor has returned the existing handle again while that handle
\* was connected.
C2_Witness ==
    /\ lastOp.op = "getInstance"
    /\ lastOp.outcome = "ok"
    /\ HasLive(lastOp.ret)

\* C3: while a singleton bound to p1 exists, the constructor called with
\* another path raises ValueError, in every connection state of the handle.
C3_ConflictRaises ==
    [][(/\ cls_instance # None
        /\ lastOp'.op = "getInstance"
        /\ lastOp'.path # handles[cls_instance].db_path)
       => lastOp'.outcome = "ValueError"]_vars

\* The constructor raised ValueError on a connected singleton.
C3_Witness ==
    /\ lastOp.op = "getInstance"
    /\ lastOp.outcome = "ValueError"
    /\ cls_instance # None
    /\ HasLive(cls_instance)
    /\ lastOp.path # handles[cls_instance].db_path

\* C4: no operation changes the path a handle was initialized with, and no
\* operation but reset replaces the singleton.
C4_PathImmutable ==
    [][/\ \A h \in DOMAIN handles :
            (handles[h].initialized /\ h \in Reachable(cls_instance', held'))
                => /\ handles'[h].initialized
                   /\ handles'[h].db_path = handles[h].db_path
       /\ (cls_instance # None /\ lastOp'.op # "reset")
            => cls_instance' = cls_instance]_vars

\* A constructor call with another path failed on a singleton that was never
\* connected, and the singleton is still bound to its own path.
C4_Witness ==
    /\ lastOp.op = "getInstance"
    /\ lastOp.outcome = "ValueError"
    /\ cls_instance # None
    /\ ~handles[cls_instance].has_conn
    /\ handles[cls_instance].db_path \in Paths \ {lastOp.path}

\* C5: execute raises RuntimeError whenever the handle has no live
\* connection, and succeeds only while the handle has one.
C5_ExecuteNeedsConnection ==
    [][lastOp'.op = "execute"
       => /\ ~HasLive(lastOp'.h) => lastOp'.outcome = "RuntimeError"
          /\ lastOp'.outcome = "ok" => HasLive(lastOp'.h)]_vars

\* execute raised RuntimeError on a handle that was connected and then closed.
C5_Witness ==
    /\ lastOp.op = "execute"
    /\ lastOp.outcome = "RuntimeError"
    /\ handles[lastOp.h].has_conn

\* C6: immediately after reset no connection is live, whether or not close
\* was called before.
C6_NoLiveConnectionAfterReset ==
    lastOp.op = "reset" => LiveConns = {}

\* C7: the constructor call after a reset succeeds for any path and returns
\* a handle bound to that path that is none of the handles returned before
\* the reset.
C7_FreshAfterReset ==
    [][(lastOp.op = "reset" /\ lastOp'.op = "getInstance")
       => /\ lastOp'.outcome = "ok"
          /\ lastOp'.ret \notin retired
          /\ lastOp'.ret = cls_instance'
          /\ handles'[lastOp'.ret].db_path = lastOp'.path]_vars

\* The constructor returned a new handle bound to a path other than that of
\* a handle returned before the reset and still kept by a caller.
C7_Witness ==
    /\ lastOp.op = "getInstance"
    /\ lastOp.outcome = "ok"
    /\ lastOp.ret \notin retired
    /\ \E old \in retired \cap held :
           /\ handles[old].db_path # lastOp.path
           /\ handles[lastOp.ret].db_path = lastOp.path

\* C8: connect on a handle with a live connection opens nothing, keeps the
\* connection and raises nothing; every connect leaves the handle connected.
C8_ConnectIdempotent ==
    [][lastOp'.op = "connect"
       => /\ lastOp'.outcome = "ok"
          /\ conns'[ConnAttr(handles'[lastOp'.h], cls_conn')].open
          /\ HasLive(lastOp'.h)
                => UNCHANGED <<cls_instance, cls_conn, handles, conns, store, held>>]_vars

\* connect was called on a handle that was connected already.
C8_Witness ==
    /\ lastOp.op = "connect"
    /\ lastOp.pre
    /\ HasLive(lastOp.h)

\* C9: close releases the live connection of the handle and clears the
\* reference; without a live connection it changes nothing; it never raises.
C9_CloseReleasesAndIsIdempotent ==
    [][lastOp'.op = "close"
       => /\ lastOp'.outcome = "ok"
          /\ ConnAttr(handles'[lastOp'.h], cls_conn') = None
          /\ HasLive(lastOp'.h) => ~conns'[ConnOf(lastOp'.h)].open
          /\ ~HasLive(lastOp'.h)
                => UNCHANGED <<cls_instance, cls_conn, handles, conns, store, held>>]_vars

\* close was called on a handle that had been connected and closed before.
C9_Witness ==
    /\ lastOp.op = "close"
    /\ ~lastOp.pre
    /\ handles[lastOp.h].has_conn

\* C10: a successful INSERT of a row followed by a SELECT on the same handle
\* returns rows that include the inserted row.
C10_RoundTrip ==
    [][(/\ lastOp.op = "execute"
        /\ lastOp.q.kind = "INSERT"
        /\ lastOp.outcome = "ok"
        /\ lastOp'.op = "execute"
        /\ lastOp'.h = lastOp.h
        /\ lastOp'.q.kind = "SELECT")
       => /\ lastOp'.outcome = "ok"
          /\ lastOp.q.row \in lastOp'.rows]_vars

\* A SELECT on a connected handle returned an inserted row.
C10_Witness ==
    /\ lastOp.op = "execute"
    /\ lastOp.q.kind = "SELECT"
    /\ lastOp.outcome = "ok"
    /\ lastOp.rows # {}

\* C11: every successful execute has committed its write before it returns:
\* no connection is left with an open transaction, an inserted row is in the
\* store of the handle's file, and no later close, reset or dropped reference
\* takes it out of the store.
C11_WritesCommitted ==
    /\ [](/\ \A c \in DOMAIN conns : ~conns[c].dirty
          /\ (lastOp.op = "execute" /\ lastOp.outcome = "ok" /\ lastOp.q.kind = "INSERT")
                => lastOp.q.row \in store[handles[lastOp.h].db_path])
    /\ [][lastOp'.op \in {"close", "reset", "drop"} => store' = store]_vars

\* reset has abandoned a connection that was never closed, and the row
\* written through it is in the store.
C11_Witness ==
    /\ lastOp.op = "reset"
    /\ \E h \in held : HasLive(h) /\ store[handles[h].db_path] # {}

\* C12: a constructor call that raises ValueError and an execute that raises
\* RuntimeError change nothing: the singleton, its path, every connection
\* and the store are as before, and no connection is opened.
C12_FailedCallChangesNothing ==
    [][lastOp'.outcome \in {"ValueError", "RuntimeError"}
       => UNCHANGED <<cls_instance, cls_conn, handles, conns, store, held, returned, retired>>]_vars

\* The constructor raised ValueError on a singleton that had been connected
\* and closed, and the singleton is still closed and bound to its own path.
C12_Witness ==
    /\ lastOp.op = "getInstance"
    /\ lastOp.outcome = "ValueError"
    /\ cls_instance # None
    /\ handles[cls_instance].has_conn
    /\ handles[cls_instance].conn = None
    /\ handles[cls_instance].db_path \in Paths \ {lastOp.path}

\* C16: a handle keeps its path while it goes from connected to closed and
\* back: every connect leaves the handle with a live connection, also after
\* close; every live connection is on the file the handle was bound to at
\* construction; and a valid statement on a connected handle succeeds.
C16_ReconnectsOnBoundPath ==
    /\ \A h \in Reachable(cls_instance, held) :
          /\ handles[h].initialized
          /\ handles[h].db_path \in Paths
          /\ HasLive(h) => conns[ConnOf(h)].path = handles[h].db_path
    /\ lastOp.op = "connect" => HasLive(lastOp.h)
    /\ (lastOp.op = "execute" /\ lastOp.pre /\ lastOp.q.kind # "BAD")
          => lastOp.outcome = "ok"

\* The only handle ever created executes a statement on its second
\* connection: it was connected, closed and connected again.
C16_Witness ==
    /\ lastOp.op = "execute"
    /\ lastOp.outcome = "ok"
    /\ Len(handles) = 1
    /\ ConnOf(lastOp.h) = 2
    /\ ~conns[1].open

\* C17: the constructor called with the bound path on an existing singleton
\* succeeds, returns the singleton, and changes neither a handle nor a
\* connection nor the store.
C17_SamePathIsNoOp ==
    [][(/\ cls_instance # None
        /\ lastOp'.op = "getInstance"
        /\ lastOp'.path = handles[cls_instance].db_path)
       => /\ lastOp'.outcome = "ok"
          /\ lastOp'.ret = cls_instance
          /\ UNCHANGED <<cls_instance, cls_conn, handles, conns, store>>]_vars

\* The constructor returned the existing singleton, which had been closed
\* and is still closed.
C17_Witness ==
    /\ lastOp.op = "getInstance"
    /\ lastOp.outcome = "ok"
    /\ lastOp.ret = cls_instance
    /\ handles[lastOp.ret].has_conn
    /\ handles[lastOp.ret].conn = None

\* C18: the handle the constructor returns after a reset has no connection,
\* and execute on a handle on which connect was never called raises
\* RuntimeError, whatever connections handles from before the reset hold.
C18_NewSingletonStartsDisconnected ==
    /\ [][(lastOp.op = "reset" /\ lastOp'.op = "getInstance" /\ lastOp'.outcome = "ok")
          => ConnAttr(handles'[lastOp'.ret], cls_conn') = None]_vars
    /\ [][(lastOp'.op = "execute" /\ ~handles[lastOp'.h].has_conn)
          => lastOp'.outcome = "RuntimeError"]_vars
    /\ [](cls_conn = None)

\* execute raised RuntimeError on a handle created after a reset while a
\* handle from before the reset, bound to the same path, is still connected.
C18_Witness ==
    /\ lastOp.op = "execute"
    /\ lastOp.outcome = "RuntimeError"
    /\ lastOp.h \notin retired
    /\ ~handles[lastOp.h].has_conn
    /\ \E old \in retired \cap held :
           /\ HasLive(old)
           /\ handles[old].db_path = handles[lastOp.h].db_path

\* C13, as claimed: a context manager has a live connection exactly while a
\* with block on it is open, and execute raises RuntimeError without one.
C13_LiveExactlyInsideWith ==
    /\ \A o \in DOMAIN objs : objs[o].depth > 0 <=> ObjLive(o)
    /\ (lastOp.op = "execute" /\ ~lastOp.pre) => lastOp.outcome = "RuntimeError"

\* C13, amended: a context manager has a live connection from each __enter__
\* until the next __exit__ on the same object and never outside a with
\* block: __enter__ leaves it connected, execute keeps the connection,
\* __exit__ closes it and sets conn to None whether or not the block raised,
\* no live connection is left unreferenced, and execute raises RuntimeError
\* exactly when the object has no connection.
C13_LiveFromEnterToExit ==
    /\ [](/\ \A o \in DOMAIN objs : ObjLive(o) => objs[o].depth > 0
          /\ \A c \in LiveConns : \E o \in DOMAIN objs : objs[o].conn = c
          /\ lastOp.op = "enter" => ObjLive(lastOp.h)
          /\ lastOp.op = "exit" => objs[lastOp.h].conn = None
          /\ lastOp.op = "execute" => (lastOp.outcome = "RuntimeError" <=> ~lastOp.pre))
    /\ [][/\ (lastOp'.op = "exit" /\ ObjLive(lastOp'.h))
                => ~conns'[objs[lastOp'.h].conn].open
          /\ lastOp'.op = "execute" => objs' = objs]_vars

\* A with block that was holding a live connection ended with an exception,
\* and the object has no connection.
C13_Witness ==
    /\ lastOp.op = "exit"
    /\ lastOp.q.kind = "exception"
    /\ lastOp.pre
    /\ objs[lastOp.h].conn = None
    /\ LiveConns = {}

\* C14: constructing a lazy object opens nothing; execute never raises
\* RuntimeError, keeps a live connection and opens one on db_path when there
\* is none, also after close; every live connection is the conn of one object.
C14_LazyConnectsOnExecute ==
    /\ [][/\ lastOp'.op = "new"
                => conns' = conns /\ objs'[lastOp'.h].conn = None
          /\ lastOp'.op = "execute"
                => /\ lastOp'.outcome # "RuntimeError"
                   /\ ObjLive(lastOp'.h)
                        => /\ objs'[lastOp'.h].conn = objs[lastOp'.h].conn
                           /\ Len(conns') = Len(conns)
                   /\ ~ObjLive(lastOp'.h)
                        => /\ objs'[lastOp'.h].conn = Len(conns) + 1
                           /\ Len(conns') = Len(conns) + 1
                           /\ conns'[Len(conns')].path = objs[lastOp'.h].db_path]_vars
    /\ [](/\ \A c \in LiveConns :
                Cardinality({o \in DOMAIN objs : objs[o].conn = c}) = 1
          /\ lastOp.op = "execute" => ObjLive(lastOp.h))

\* The only lazy object executed a statement on its second connection, which
\* the execute opened: the object had been closed.
C14_Witness ==
    /\ lastOp.op = "execute"
    /\ lastOp.outcome = "ok"
    /\ ~lastOp.pre
    /\ Len(objs) = 1
    /\ objs[lastOp.h].conn = 2

\* C15: an eager object is connected by its constructor and stays connected
\* until close; once closed it stays closed whatever is called, every
\* execute on it raises RuntimeError, and a further close changes nothing.
C15_EagerCloseIsTerminal ==
    /\ [](/\ lastOp.op = "new" => ObjLive(lastOp.h)
          /\ lastOp.op = "execute" => (lastOp.outcome = "RuntimeError" <=> ~lastOp.pre))
    /\ [][/\ \A o \in DOMAIN objs :
                /\ objs[o].conn = None => objs'[o].conn = None
                /\ (ObjLive(o) /\ ~(lastOp'.op = "close" /\ lastOp'.h = o))
                      => objs'[o].conn = objs[o].conn /\ conns'[objs[o].conn].open
          /\ lastOp'.op = "close"
                => /\ lastOp'.outcome = "ok"
                   /\ objs'[lastOp'.h].conn = None
                   /\ ObjLive(lastOp'.h) => ~conns'[objs[lastOp'.h].conn].open
                   /\ ~ObjLive(lastOp'.h) => UNCHANGED <<objs, conns, store>>]_vars

\* execute raised RuntimeError on an eager object that had been closed.
C15_Witness ==
    /\ lastOp.op = "execute"
    /\ lastOp.outcome = "RuntimeError"
    /\ objs[lastOp.h].kind = "eager"
    /\ objs[lastOp.h].conn = None

====
